---------------------------- MODULE Spec2Model ----------------------------
(***************************************************************************)
(* Device session core of the Lucid L600 bed controller                    *)
(* (src/controllers/lucid.py, class lucidBLEController).                    *)
(*                                                                         *)
(* Threads: the constructing thread ("init"), the periodic_scan daemon     *)
(* thread ("scan"), a thread running bluetoothPoller ("poller", started    *)
(* by the embedding program: the constructor's own start of it is          *)
(* commented out, lines 71-73), and the threads of the front end that      *)
(* call send_command (Callers).  Every device operation is one step; its   *)
(* outcome (return or exception) is chosen by the environment.             *)
(*                                                                         *)
(* Specifications: Spec and FairSpec (the whole session), SoloFairSpec     *)
(* (one calling thread, for the progress properties), ScanSpec (the scan   *)
(* over a bed with a shared descriptor uuid) and DecodeSpec (the Status    *)
(* Decoder of specification section 4.3, which is not among the sources). *)
(***************************************************************************)
EXTENDS Naturals, FiniteSets, Sequences, TLC

\* ------------------------------------------------------------------ bounds
\* Longest time (s) one Peripheral() attempt is modelled to take.
MaxOpenDelay == 2
\* Measured reconnect durations saturate here (not below RetryWindow).
MaxDur == 5
\* The per-call count of reads saturates here.
MaxReads == 1

\* --------------------------------------------------------------- constants
\* (end - start) < 5, line 141
RetryWindow == 5
\* time.sleep(1) of connectBed, line 124
Backoff == 1
\* characteristic handle 0x001A: command writes and the first handshake read
CommandHandle == 26
\* characteristic handle 0x001D: the second handshake read
ControlHandle == 29

Callers == {"c1", "c2"}
Threads == {"init", "scan", "poller"} \cup Callers

\* self.commands, lines 42-63
commands ==
    [n \in {"Flat Preset", "ZeroG Preset", "TV Preset", "Lounge Preset",
            "Quiet Sleep", "Memory 1", "Memory 2", "Underlight", "Lift Head",
            "Lower Head", "Lift Foot", "Lower Foot", "Massage Toggle",
            "Wave Massage Cycle", "Head Massage Cycle", "Foot Massage Cycle",
            "Massage Timer", "Keepalive NOOP"} |->
        CASE n = "Flat Preset"        -> "e6fe160000000800fd"
          [] n = "ZeroG Preset"       -> "e6fe160010000000f5"
          [] n = "TV Preset"          -> "e6fe160040000000c5"
          [] n = "Lounge Preset"      -> "e6fe160020000000e5"
          [] n = "Quiet Sleep"        -> "e6fe16008000000085"
          [] n = "Memory 1"           -> "e6fe16000001000004"
          [] n = "Memory 2"           -> "e6fe16000004000001"
          [] n = "Underlight"         -> "e6fe16000002000003"
          [] n = "Lift Head"          -> "e6fe16010000000004"
          [] n = "Lower Head"         -> "e6fe16020000000003"
          [] n = "Lift Foot"          -> "e6fe16040000000001"
          [] n = "Lower Foot"         -> "e6fe160800000000fd"
          [] n = "Massage Toggle"     -> "e6fe16000100000004"
          [] n = "Wave Massage Cycle" -> "e6fe160000001000f5"
          [] n = "Head Massage Cycle" -> "e6fe160008000000fd"
          [] n = "Foot Massage Cycle" -> "e6fe16000400000001"
          [] n = "Massage Timer"      -> "e6fe16000200000003"
          [] n = "Keepalive NOOP"     -> "e6fe16000000000005"]

\* The names the callers pass to send_command: two names of the table
\* (the keepalive entry among them) and one that is not in it.
InputNames == {"Flat Preset", "Keepalive NOOP", "preset_flat"}

\* What device.getServices() / getCharacteristics() / getDescriptors() return
\* on the bed of the concurrency model: one service, one characteristic with
\* one descriptor.
GattServices ==
    << [uuid |-> "ffe0",
        chars |-> << [uuid |-> "ffe1", descs |-> << "2902" >>] >>] >>

VARIABLES
    charWriteInProgress, \* threading.Lock: "free" or the thread holding it
    device,              \* self.device: "unset" (no such attribute yet) or
                         \* "peripheral" (a Peripheral object)
    linkUp,              \* the link behind self.device is up
    current_preset,      \* self.current_preset
    previous_preset,     \* self.previous_preset
    pc,                  \* position of every thread
    name,                \* send_command's argument, per caller
    logged,              \* last outcome logged by the thread's call or tick
    ret,                 \* the value the running send_command call returns
    nWrites,             \* writeCharacteristic calls of the current call/tick
    nReads,              \* read / enumeration calls of the current call/tick
    nConnects,           \* connectBed invocations of the current call/tick
    written,             \* <<handle, payload>> written by the current call/tick
    connDur,             \* seconds spent in the running connectBed call
    connOpened,          \* Peripheral() succeeded in the current iteration
    connFresh,           \* self.device was assigned by the running connectBed
    scanPos,             \* <<service, characteristic, descriptor>> of the scan
    updated,             \* scan_characteristics' local flag
    seen_services,       \* self.seen_services
    seen_characteristics,\* self.seen_characteristics
    last_known_values,   \* self.last_known_values: uuid -> bytes
    lastRead,            \* history: what each data point returned when last read
    compared,            \* history: the latest comparison of the running scan
    rawStatus,           \* the raw status payload of the latest Refresh
    bedState             \* BedState: head_angle, foot_angle, light_on

vars == << charWriteInProgress, device, linkUp, current_preset,
           previous_preset, pc, name, logged, ret, nWrites, nReads, nConnects,
           written, connDur, connOpened, connFresh, scanPos, updated,
           seen_services, seen_characteristics, last_known_values, lastRead,
           compared, rawStatus, bedState >>

shared == << device, linkUp, connDur, connOpened, connFresh >>
presets == << current_preset, previous_preset >>
counters == << nWrites, nReads, nConnects, written >>
scanned == << scanPos, updated, seen_services, seen_characteristics,
              last_known_values, lastRead, compared >>
status == << rawStatus, bedState >>

Min(a, b) == IF a < b THEN a ELSE b
Bump(f, t) == [f EXCEPT ![t] = @ + 1]
BumpReads(t) == [nReads EXCEPT ![t] = Min(@ + 1, MaxReads)]

\* A device operation returns only while the link is up, and may raise then
\* too; on a dead link it always raises.
Outcomes == IF linkUp THEN {TRUE, FALSE} ELSE {FALSE}

constructed == pc["init"] = "done"

\* A call or tick of thread t is over: its arguments, locals and the record
\* of what it did are gone.
Forget(t) ==
    /\ name' = [c \in Callers |-> IF c = t THEN "none" ELSE name[c]]
    /\ ret' = [c \in Callers |-> IF c = t THEN "nocall" ELSE ret[c]]
    /\ logged' = [logged EXCEPT ![t] = "none"]
    /\ nWrites' = [nWrites EXCEPT ![t] = 0]
    /\ nReads' = [nReads EXCEPT ![t] = 0]
    /\ nConnects' = [nConnects EXCEPT ![t] = 0]
    /\ written' = [written EXCEPT ![t] = {}]

\* --------------------------------------------------------- Status Decoder
\* The status-tracking variant of the controller is not among the sources;
\* Decode and Refresh follow section 4.3 of the specification.  A payload is
\* given by its sub-fields, each in the hexadecimal string representation the
\* decoder works on: a sequence of hexadecimal digits.
HexDigits ==
    << "0", "1", "2", "3", "4", "5", "6", "7", "8", "9", "A", "B", "C", "D",
       "E", "F" >>

HexValue(ch) == (CHOOSE i \in 1..Len(HexDigits) : HexDigits[i] = ch) - 1

\* The unsigned integer a hexadecimal string denotes.
RECURSIVE ParseHex(_)
ParseHex(digits) ==
    IF digits = << >> THEN 0
    ELSE ParseHex(SubSeq(digits, 1, Len(digits) - 1)) * Len(HexDigits)
         + HexValue(digits[Len(digits)])

HeadMaxRaw == 16000
HeadMaxAngle == 60
FootMaxRaw == 12000
FootMaxAngle == 45
LightSentinel == "4"

\* angle = min_angle + (raw - min_raw) * (max_angle - min_angle)
\*                     / (max_raw - min_raw), with min_raw = min_angle = 0;
\* no clamping.  The quotient (a float in the program) is kept exact, as the
\* fraction num / den of degrees.
Normalize(raw, max_raw, max_angle) ==
    [num |-> raw * max_angle, den |-> max_raw]

\* Mutant: the head-angle sub-fields are concatenated in transmitted order.
Decode_unswapped(p) ==
    [head_angle |-> Normalize(ParseHex(p.head1 \o p.head2),
                              HeadMaxRaw, HeadMaxAngle),
     foot_angle |-> Normalize(ParseHex(p.foot2 \o p.foot1),
                              FootMaxRaw, FootMaxAngle),
     light_on |-> p.light = LightSentinel]

\* Decode: the two 1-byte sub-fields of each angle are taken in swapped
\* order, concatenated and parsed as one 16-bit unsigned integer, which is
\* normalized; the light is on when its byte is the sentinel.
Decode(p) ==
    [head_angle |-> Normalize(ParseHex(p.head2 \o p.head1),
                              HeadMaxRaw, HeadMaxAngle),
     foot_angle |-> Normalize(ParseHex(p.foot2 \o p.foot1),
                              FootMaxRaw, FootMaxAngle),
     light_on |-> p.light = LightSentinel]

\* The sub-field values a status payload is drawn from.
StatusBytes == {<< "0", "0" >>, << "4", "0" >>, << "3", "E" >>, << "F", "F" >>}
StatusPayloads ==
    [light : {"0", LightSentinel}, head1 : StatusBytes, head2 : StatusBytes,
     foot1 : StatusBytes, foot2 : StatusBytes]

\* The payload on record before the first Refresh.
NoPayload ==
    [light |-> "0", head1 |-> << "0", "0" >>, head2 |-> << "0", "0" >>,
     foot1 |-> << "0", "0" >>, foot2 |-> << "0", "0" >>]

\* No comparison made yet by the running scan.
NoComparison ==
    [point |-> << 0, 0, 0 >>, key |-> "none", value |-> "none",
     stored |-> "none", prev |-> "none", updated |-> FALSE]

\* __init__, lines 34-69: the fields are set, connectBed() is about to run.
Init ==
    /\ charWriteInProgress = "free"
    /\ device = "unset"
    /\ linkUp = FALSE
    /\ current_preset = "Unknown"
    /\ previous_preset = "None"
    /\ pc = [t \in Threads |->
               IF t = "init" THEN "cb_open"
               ELSE IF t \in Callers THEN "idle" ELSE "off"]
    /\ name = [c \in Callers |-> "none"]
    /\ logged = [t \in Threads |-> "none"]
    /\ ret = [c \in Callers |-> "nocall"]
    /\ nWrites = [t \in Threads |-> 0]
    /\ nReads = [t \in Threads |-> 0]
    /\ nConnects = [t \in Threads |-> IF t = "init" THEN 1 ELSE 0]
    /\ written = [t \in Threads |-> {}]
    /\ connDur = 0
    /\ connOpened = FALSE
    /\ connFresh = FALSE
    /\ scanPos = << 0, 0, 0 >>
    /\ updated = FALSE
    /\ seen_services = {}
    /\ seen_characteristics = {}
    /\ last_known_values = << >>
    /\ lastRead = << >>
    /\ compared = NoComparison
    /\ rawStatus = NoPayload
    /\ bedState = Decode(NoPayload)

\* The environment: the bed drops the link behind the current handle.
LinkDrop ==
    /\ linkUp
    /\ linkUp' = FALSE
    /\ UNCHANGED << charWriteInProgress, device, current_preset,
                    previous_preset, pc, name, logged, ret, nWrites, nReads,
                    nConnects, written, connDur, connOpened, connFresh,
                    scanned, status >>

\* ------------------------------------------------------------- connectBed
\* Where a thread continues when its connectBed() call returns.
AfterConnect(t) ==
    IF t = "init" THEN "init_start"
    ELSE IF t \in Callers THEN "sc_after" ELSE "bp_release"

\* connectBed() has returned and its caller has gone on: the locals are gone.
LeaveConnect ==
    /\ connDur' = 0
    /\ connOpened' = FALSE
    /\ connFresh' = FALSE

\* The call self.connectBed(): a thread enters the loop of lines 106-124.
EnterConnect(t) ==
    /\ nConnects' = Bump(nConnects, t)
    /\ connDur' = 0
    /\ connOpened' = FALSE
    /\ connFresh' = FALSE

\* Lines 107-114: Peripheral(...) either returns a new object, which is
\* assigned to self.device (connFresh records that the object held is one
\* made by this call), or raises, which is logged and leaves self.device as
\* it was.  Then `if self.device is not None` is evaluated: before the
\* first assignment the attribute does not exist and the test raises
\* AttributeError out of connectBed; afterwards the attribute always holds a
\* Peripheral, so the test is true and the handshake follows.
connectBed_open(t) ==
    /\ pc[t] = "cb_open"
    /\ \E ok \in BOOLEAN, d \in 0..MaxOpenDelay :
        /\ connDur' = Min(connDur + d, MaxDur)
        /\ IF ok
           THEN /\ device' = "peripheral"
                /\ linkUp' = TRUE
                /\ connOpened' = TRUE
                /\ connFresh' = TRUE
                /\ pc' = [pc EXCEPT ![t] = "cb_read1"]
           ELSE /\ UNCHANGED << device, linkUp, connFresh >>
                /\ connOpened' = FALSE
                /\ pc' = [pc EXCEPT ![t] =
                            IF device = "unset" THEN "raised" ELSE "cb_read1"]
    /\ UNCHANGED << charWriteInProgress, presets, name, logged, ret, counters,
                    scanned, status >>

\* Line 117: self.device.readCharacteristic(0x001A).
connectBed_read1(t) ==
    /\ pc[t] = "cb_read1"
    /\ nReads' = BumpReads(t)
    /\ \E ok \in Outcomes :
        pc' = [pc EXCEPT ![t] = IF ok THEN "cb_read2" ELSE "cb_sleep"]
    /\ UNCHANGED << charWriteInProgress, shared, presets, name, logged, ret,
                    nWrites, nConnects, written, scanned, status >>

\* Lines 118-120: self.device.readCharacteristic(0x001D), then return.
connectBed_read2(t) ==
    /\ pc[t] = "cb_read2"
    /\ nReads' = BumpReads(t)
    /\ \E ok \in Outcomes :
        pc' = [pc EXCEPT ![t] = IF ok THEN AfterConnect(t) ELSE "cb_sleep"]
    /\ UNCHANGED << charWriteInProgress, shared, presets, name, logged, ret,
                    nWrites, nConnects, written, scanned, status >>

\* Lines 121-124: the handshake raised; log, time.sleep(1), next iteration.
connectBed_sleep(t) ==
    /\ pc[t] = "cb_sleep"
    /\ connDur' = Min(connDur + Backoff, MaxDur)
    /\ connOpened' = FALSE
    /\ pc' = [pc EXCEPT ![t] = "cb_open"]
    /\ UNCHANGED << charWriteInProgress, device, linkUp, connFresh, presets,
                    name, logged, ret, counters, scanned, status >>

connectBed(t) ==
    \/ connectBed_open(t)
    \/ connectBed_read1(t)
    \/ connectBed_read2(t)
    \/ connectBed_sleep(t)

\* --------------------------------------------------------------- __init__
\* Lines 70-74 with 196-199: connectBed() returned; the daemon thread running
\* periodic_scan is started and the constructor returns.
scan_characteristics_periodically ==
    /\ pc["init"] = "init_start"
    /\ pc' = [pc EXCEPT !["init"] = "done", !["scan"] = "ps_lock"]
    /\ LeaveConnect
    /\ Forget("init")
    /\ UNCHANGED << charWriteInProgress, device, linkUp, presets,
                    scanned, status >>

\* ----------------------------------------------------------- send_command
\* Mutant: the lookup falls back to the keepalive entry instead of None.
commands_get_default(n) ==
    IF n \in DOMAIN commands THEN commands[n] ELSE commands["Keepalive NOOP"]

\* Line 128: self.commands.get(name, None).
commands_get(n) == IF n \in DOMAIN commands THEN commands[n] ELSE "None"

\* Mutant: the payload looked up is the poller's, whatever the name.
cmd_keepalive(c) == commands_get("Keepalive NOOP")

\* The local cmd of the running send_command call.
cmd(c) == commands_get(name[c])

\* Mutant: the write goes to the other handle the controller uses, 0x001D.
WriteOf_control(payload) == << ControlHandle, payload >>

\* Line 156: the write charWrite issues for cmd, as <<handle, payload>>
\* (bytes.fromhex(cmd) to handle 0x001A).
WriteOf(payload) == << CommandHandle, payload >>

\* Mutant: the window includes its end.
RetryAllowed_inclusive(duration) == duration <= RetryWindow

\* Line 141: (end - start) < 5.
RetryAllowed(duration) == duration < RetryWindow

\* Mutant: the test of the lookup's result is made inside the with block, so
\* every call goes to the acquire first.
send_command_lookup_late(c) ==
    /\ constructed
    /\ pc[c] = "idle"
    /\ \E n \in InputNames :
        /\ name' = [name EXCEPT ![c] = n]
        /\ pc' = [pc EXCEPT ![c] = "sc_lock"]
    /\ UNCHANGED << charWriteInProgress, shared, presets, logged, ret,
                    counters, scanned, status >>

\* Lines 127-132: the call and the lookup.  An unknown name is logged and the
\* call is about to return (a bare return: None).
send_command_lookup(c) ==
    /\ constructed
    /\ pc[c] = "idle"
    /\ \E n \in InputNames :
        /\ name' = [name EXCEPT ![c] = n]
        /\ IF commands_get(n) # "None"
           THEN /\ pc' = [pc EXCEPT ![c] = "sc_lock"]
                /\ UNCHANGED << logged, ret >>
           ELSE /\ pc' = [pc EXCEPT ![c] = "sc_return"]
                /\ logged' = [logged EXCEPT ![c] = "unknown"]
                /\ ret' = [ret EXCEPT ![c] = "None"]
    /\ UNCHANGED << charWriteInProgress, shared, presets, counters,
                    scanned, status >>

\* Line 132: the return of the call with an unknown name.
send_command_return(c) ==
    /\ pc[c] = "sc_return"
    /\ pc' = [pc EXCEPT ![c] = "idle"]
    /\ Forget(c)
    /\ UNCHANGED << charWriteInProgress, shared, presets, scanned, status >>

\* Mutant: send_command enters its I/O without waiting for the lock.
send_command_acquire_unguarded(c) ==
    /\ pc[c] = "sc_lock"
    /\ charWriteInProgress' = c
    /\ pc' = [pc EXCEPT ![c] = "sc_write"]
    /\ UNCHANGED << shared, presets, name, logged, ret, counters,
                    scanned, status >>

\* Line 133: with self.charWriteInProgress (acquire).
send_command_acquire(c) ==
    /\ pc[c] = "sc_lock"
    /\ charWriteInProgress = "free"
    /\ charWriteInProgress' = c
    /\ pc' = [pc EXCEPT ![c] = "sc_write"]
    /\ UNCHANGED << shared, presets, name, logged, ret, counters,
                    scanned, status >>

\* Mutant: the presets are recorded before the write, whether it returns or
\* raises.
charWrite_eager(c) ==
    /\ pc[c] = "sc_write"
    /\ nWrites' = Bump(nWrites, c)
    /\ written' = [written EXCEPT ![c] = @ \cup {WriteOf(cmd(c))}]
    /\ previous_preset' = current_preset
    /\ current_preset' = name[c]
    /\ \E ok \in Outcomes :
        IF ok
        THEN /\ logged' = [logged EXCEPT ![c] = "sent"]
             /\ ret' = [ret EXCEPT ![c] = "None"]
             /\ pc' = [pc EXCEPT ![c] = "sc_release"]
             /\ UNCHANGED << nConnects, connDur, connOpened, connFresh >>
        ELSE /\ UNCHANGED << logged, ret >>
             /\ EnterConnect(c)
             /\ pc' = [pc EXCEPT ![c] = "cb_open"]
    /\ UNCHANGED << charWriteInProgress, device, linkUp, name, nReads,
                    scanned, status >>

\* Mutant: the handler of the failed write runs after the with block, so
\* connectBed() is called with the lock released.
charWrite_unlocked(c) ==
    /\ pc[c] = "sc_write"
    /\ nWrites' = Bump(nWrites, c)
    /\ written' = [written EXCEPT ![c] = @ \cup {WriteOf(cmd(c))}]
    /\ \E ok \in Outcomes :
        IF ok
        THEN /\ previous_preset' = current_preset
             /\ current_preset' = name[c]
             /\ logged' = [logged EXCEPT ![c] = "sent"]
             /\ ret' = [ret EXCEPT ![c] = "None"]
             /\ pc' = [pc EXCEPT ![c] = "sc_release"]
             /\ UNCHANGED << charWriteInProgress, nConnects, connDur,
                             connOpened, connFresh >>
        ELSE /\ UNCHANGED << presets, logged, ret >>
             /\ charWriteInProgress' = "free"
             /\ EnterConnect(c)
             /\ pc' = [pc EXCEPT ![c] = "cb_open"]
    /\ UNCHANGED << device, linkUp, name, nReads, scanned, status >>

\* Lines 154-160, called from line 135: the write of the command's payload to
\* handle 0x001A; when it returns the presets are recorded and send_command
\* has nothing left to do but leave the with block and return None (the
\* function has no return value); when it raises, send_command's handler
\* (lines 136-139) takes the start time and calls connectBed().
charWrite(c) ==
    /\ pc[c] = "sc_write"
    /\ nWrites' = Bump(nWrites, c)
    /\ written' = [written EXCEPT ![c] = @ \cup {WriteOf(cmd(c))}]
    /\ \E ok \in Outcomes :
        IF ok
        THEN /\ previous_preset' = current_preset
             /\ current_preset' = name[c]
             /\ logged' = [logged EXCEPT ![c] = "sent"]
             /\ ret' = [ret EXCEPT ![c] = "None"]
             /\ pc' = [pc EXCEPT ![c] = "sc_release"]
             /\ UNCHANGED << nConnects, connDur, connOpened, connFresh >>
        ELSE /\ UNCHANGED << presets, logged, ret >>
             /\ EnterConnect(c)
             /\ pc' = [pc EXCEPT ![c] = "cb_open"]
    /\ UNCHANGED << charWriteInProgress, device, linkUp, name, nReads,
                    scanned, status >>

\* Mutant: within the window the call goes back to its first write, handler
\* included, instead of making one guarded retry.
send_command_after_again(c) ==
    /\ pc[c] = "sc_after"
    /\ IF RetryAllowed(connDur)
       THEN /\ pc' = [pc EXCEPT ![c] = "sc_write"]
            /\ UNCHANGED << logged, ret >>
       ELSE /\ logged' = [logged EXCEPT ![c] = "drop_slow"]
            /\ ret' = [ret EXCEPT ![c] = "None"]
            /\ pc' = [pc EXCEPT ![c] = "sc_release"]
    /\ UNCHANGED << charWriteInProgress, shared, presets, name, counters,
                    scanned, status >>

\* Lines 140-151: connectBed() returned and the end time is taken.  Within
\* the window the retry is the call self.charWrite(self, cmd, name): four
\* arguments to a method of three, which raises TypeError before anything is
\* written; the handler logs the drop.  Outside the window the drop is logged.
send_command_after(c) ==
    /\ pc[c] = "sc_after"
    /\ logged' = [logged EXCEPT
                    ![c] = IF RetryAllowed(connDur)
                           THEN "drop_retry" ELSE "drop_slow"]
    /\ ret' = [ret EXCEPT ![c] = "None"]
    /\ pc' = [pc EXCEPT ![c] = "sc_release"]
    /\ UNCHANGED << charWriteInProgress, shared, presets, name, counters,
                    scanned, status >>

\* Mutant: a call that dropped its command returns without releasing the
\* lock.
send_command_release_held(c) ==
    /\ pc[c] = "sc_release"
    /\ charWriteInProgress' =
          IF logged[c] \in {"drop_retry", "drop_slow"} THEN c ELSE "free"
    /\ pc' = [pc EXCEPT ![c] = "idle"]
    /\ Forget(c)
    /\ LeaveConnect
    /\ UNCHANGED << device, linkUp, presets, scanned, status >>

\* End of the with block and of the function: the lock is released and the
\* call returns.
send_command_release(c) ==
    /\ pc[c] = "sc_release"
    /\ charWriteInProgress' = "free"
    /\ pc' = [pc EXCEPT ![c] = "idle"]
    /\ Forget(c)
    /\ LeaveConnect
    /\ UNCHANGED << device, linkUp, presets, scanned, status >>

send_command(c) ==
    \/ send_command_lookup(c)
    \/ send_command_return(c)
    \/ send_command_acquire(c)
    \/ charWrite(c)
    \/ send_command_after(c)
    \/ send_command_release(c)

\* -------------------------------------------------------- bluetoothPoller
\* threading.Thread(target=self.bluetoothPoller).start() (lines 71-73 are
\* commented out in the constructor; the method is started, if at all, by the
\* program that embeds the controller).
bluetoothPoller_start ==
    /\ constructed
    /\ pc["poller"] = "off"
    /\ pc' = [pc EXCEPT !["poller"] = "bp_wait"]
    /\ UNCHANGED << charWriteInProgress, shared, presets, name, logged, ret,
                    counters, scanned, status >>

\* Line 81: with self.charWriteInProgress (acquire); a tick begins.
bluetoothPoller_acquire ==
    /\ pc["poller"] = "bp_wait"
    /\ charWriteInProgress = "free"
    /\ charWriteInProgress' = "poller"
    /\ pc' = [pc EXCEPT !["poller"] = "bp_probe1"]
    /\ UNCHANGED << shared, presets, name, logged, ret, counters,
                    scanned, status >>

\* Lines 82-89: the first keepalive write.
bluetoothPoller_probe1 ==
    /\ pc["poller"] = "bp_probe1"
    /\ nWrites' = Bump(nWrites, "poller")
    /\ written' = [written EXCEPT !["poller"] =
                     @ \cup {WriteOf(commands_get("Keepalive NOOP"))}]
    /\ \E ok \in Outcomes :
        /\ pc' = [pc EXCEPT
                    !["poller"] = IF ok THEN "bp_release" ELSE "bp_probe2"]
        /\ logged' = [logged EXCEPT
                        !["poller"] = IF ok THEN "success_1" ELSE "failed_1"]
    /\ UNCHANGED << charWriteInProgress, shared, presets, name, ret, nReads,
                    nConnects, scanned, status >>

\* Mutant: the second failure is logged and the tick ends without
\* connectBed().
bluetoothPoller_probe2_noreconnect ==
    /\ pc["poller"] = "bp_probe2"
    /\ nWrites' = Bump(nWrites, "poller")
    /\ written' = [written EXCEPT !["poller"] =
                     @ \cup {WriteOf(commands_get("Keepalive NOOP"))}]
    /\ \E ok \in Outcomes :
        /\ pc' = [pc EXCEPT !["poller"] = "bp_release"]
        /\ logged' = [logged EXCEPT
                        !["poller"] = IF ok THEN "success_2" ELSE "failed_2"]
    /\ UNCHANGED << charWriteInProgress, shared, presets, name, ret, nReads,
                    nConnects, scanned, status >>

\* Lines 90-101: time.sleep(0.5), the second keepalive write, and
\* connectBed() when it raises too.
bluetoothPoller_probe2 ==
    /\ pc["poller"] = "bp_probe2"
    /\ nWrites' = Bump(nWrites, "poller")
    /\ written' = [written EXCEPT !["poller"] =
                     @ \cup {WriteOf(commands_get("Keepalive NOOP"))}]
    /\ \E ok \in Outcomes :
        IF ok
        THEN /\ pc' = [pc EXCEPT !["poller"] = "bp_release"]
             /\ logged' = [logged EXCEPT !["poller"] = "success_2"]
             /\ UNCHANGED << nConnects, connDur, connOpened, connFresh >>
        ELSE /\ pc' = [pc EXCEPT !["poller"] = "cb_open"]
             /\ logged' = [logged EXCEPT !["poller"] = "failed_2"]
             /\ EnterConnect("poller")
    /\ UNCHANGED << charWriteInProgress, device, linkUp, presets, name, ret,
                    nReads, scanned, status >>

\* End of the with block (release): the tick is over; then time.sleep(10),
\* line 102, and the next tick.
bluetoothPoller_release ==
    /\ pc["poller"] = "bp_release"
    /\ charWriteInProgress' = "free"
    /\ pc' = [pc EXCEPT !["poller"] = "bp_wait"]
    /\ LeaveConnect
    /\ Forget("poller")
    /\ UNCHANGED << device, linkUp, presets, scanned, status >>

bluetoothPoller ==
    \/ bluetoothPoller_start
    \/ bluetoothPoller_acquire
    \/ bluetoothPoller_probe1
    \/ bluetoothPoller_probe2
    \/ bluetoothPoller_release

\* ---------------------------------------------------- scan_characteristics
\* The bytes a read may return.
ReadValues == {"00"}

Service(gatt, p) == gatt[p[1]]
Char(gatt, p) == Service(gatt, p).chars[p[2]]

\* Where the loops of lines 167-190 continue after the characteristic at p:
\* the next characteristic of the service, else the next service, else the
\* end of the scan.
AfterChar(gatt, p) ==
    IF p[2] < Len(Service(gatt, p).chars)
    THEN << "ps_read", << p[1], p[2] + 1, 0 >> >>
    ELSE IF p[1] < Len(gatt) THEN << "ps_chars", << p[1] + 1, 0, 0 >> >>
    ELSE << "ps_release", << 0, 0, 0 >> >>

\* History of the reads, kept for the properties of the scan: lastRead maps a
\* data point (its position <<service, characteristic, descriptor>> in the
\* enumeration, descriptor 0 for the characteristic's own value) to the bytes
\* it returned when last read; compared describes the latest call of
\* compare_and_update / compare_and_update_descriptor of the running scan:
\* the data point, the dictionary key used, the bytes read, what the
\* dictionary held under that key and what the data point returned one read
\* earlier ("absent" for nothing), and the value the call returned.
Read(point, value) ==
    [q \in DOMAIN lastRead \cup {point} |->
        IF q = point THEN value ELSE lastRead[q]]

Comparison(point, key, value, r) ==
    [point |-> point, key |-> key, value |-> value,
     stored |-> IF key \in DOMAIN last_known_values
                THEN last_known_values[key] ELSE "absent",
     prev |-> IF point \in DOMAIN lastRead THEN lastRead[point] ELSE "absent",
     updated |-> r.updated]

\* The dictionary after self.last_known_values[key] = value.
Stored(key, value) ==
    [k \in DOMAIN last_known_values \cup {key} |->
        IF k = key THEN value ELSE last_known_values[k]]

\* Mutant: a change is reported but the new bytes are not stored.
compare_and_update_stale(service_uuid, char_uuid, new_value) ==
    IF char_uuid \in DOMAIN last_known_values
    THEN IF last_known_values[char_uuid] # new_value
         THEN [updated |-> TRUE, values |-> last_known_values]
         ELSE [updated |-> FALSE, values |-> last_known_values]
    ELSE [updated |-> TRUE, values |-> Stored(char_uuid, new_value)]

\* Lines 206-218: the value returned (whether char_uuid was absent or held
\* other bytes) and the dictionary the call leaves.
compare_and_update(service_uuid, char_uuid, new_value) ==
    IF char_uuid \in DOMAIN last_known_values
    THEN IF last_known_values[char_uuid] # new_value
         THEN [updated |-> TRUE, values |-> Stored(char_uuid, new_value)]
         ELSE [updated |-> FALSE, values |-> last_known_values]
    ELSE [updated |-> TRUE, values |-> Stored(char_uuid, new_value)]

\* Lines 220-232: the same, keyed by the descriptor's uuid.
compare_and_update_descriptor(service_uuid, char_uuid, desc_uuid, new_value) ==
    IF desc_uuid \in DOMAIN last_known_values
    THEN IF last_known_values[desc_uuid] # new_value
         THEN [updated |-> TRUE, values |-> Stored(desc_uuid, new_value)]
         ELSE [updated |-> FALSE, values |-> last_known_values]
    ELSE [updated |-> TRUE, values |-> Stored(desc_uuid, new_value)]

\* Lines 163-165: with self.charWriteInProgress (acquire); updated = False.
scan_acquire ==
    /\ pc["scan"] = "ps_lock"
    /\ charWriteInProgress = "free"
    /\ charWriteInProgress' = "scan"
    /\ pc' = [pc EXCEPT !["scan"] = "ps_services"]
    /\ updated' = FALSE
    /\ UNCHANGED << shared, presets, name, logged, ret, counters, scanPos,
                    seen_services, seen_characteristics, last_known_values,
                    lastRead, compared, status >>

\* Mutant: the exception of getServices() is not caught: it leaves the with
\* block, which releases the lock, and ends the thread.
scan_getServices_unhandled ==
    /\ pc["scan"] = "ps_services"
    /\ nReads' = BumpReads("scan")
    /\ \E ok \in Outcomes :
        IF ok
        THEN /\ pc' = [pc EXCEPT !["scan"] = "ps_chars"]
             /\ scanPos' = << 1, 0, 0 >>
             /\ UNCHANGED << logged, charWriteInProgress >>
        ELSE /\ pc' = [pc EXCEPT !["scan"] = "raised"]
             /\ logged' = [logged EXCEPT !["scan"] = "scan_error"]
             /\ charWriteInProgress' = "free"
             /\ UNCHANGED scanPos
    /\ UNCHANGED << shared, presets, name, ret, nWrites, nConnects, written,
                    updated, seen_services, seen_characteristics,
                    last_known_values, lastRead, compared, status >>

\* Line 166: services = self.device.getServices(); an exception goes to the
\* outer handler (lines 193-194), which logs it.
scan_getServices ==
    /\ pc["scan"] = "ps_services"
    /\ nReads' = BumpReads("scan")
    /\ \E ok \in Outcomes :
        IF ok
        THEN /\ pc' = [pc EXCEPT !["scan"] = "ps_chars"]
             /\ scanPos' = << 1, 0, 0 >>
             /\ UNCHANGED logged
        ELSE /\ pc' = [pc EXCEPT !["scan"] = "ps_release"]
             /\ logged' = [logged EXCEPT !["scan"] = "scan_error"]
             /\ UNCHANGED scanPos
    /\ UNCHANGED << charWriteInProgress, shared, presets, name, ret, nWrites,
                    nConnects, written, updated, seen_services,
                    seen_characteristics, last_known_values, lastRead,
                    compared, status >>

\* Lines 168-173: the service is recorded as seen, then
\* service.getCharacteristics(); an exception goes to the outer handler.
scan_getCharacteristics(gatt) ==
    /\ pc["scan"] = "ps_chars"
    /\ nReads' = BumpReads("scan")
    /\ seen_services' = seen_services \cup {Service(gatt, scanPos).uuid}
    /\ \E ok \in Outcomes :
        IF ok
        THEN /\ pc' = [pc EXCEPT !["scan"] = "ps_read"]
             /\ scanPos' = << scanPos[1], 1, 0 >>
             /\ updated' = (updated \/ Service(gatt, scanPos).uuid \notin seen_services)
             /\ UNCHANGED logged
        ELSE /\ pc' = [pc EXCEPT !["scan"] = "ps_release"]
             /\ logged' = [logged EXCEPT !["scan"] = "scan_error"]
             /\ scanPos' = << 0, 0, 0 >>
             /\ updated' = (updated \/ Service(gatt, scanPos).uuid \notin seen_services)
    /\ UNCHANGED << charWriteInProgress, shared, presets, name, ret, nWrites,
                    nConnects, written, seen_characteristics,
                    last_known_values, lastRead, compared, status >>

\* Lines 175-183: the characteristic is recorded as seen, then char.read()
\* and compare_and_update; an exception goes to the inner handler (lines
\* 189-190) and the loop takes the next characteristic.
scan_read(gatt, values) ==
    /\ pc["scan"] = "ps_read"
    /\ nReads' = BumpReads("scan")
    /\ seen_characteristics' = seen_characteristics \cup {Char(gatt, scanPos).uuid}
    /\ \E ok \in Outcomes :
        IF ok
        THEN /\ \E value \in values :
                  LET r == compare_and_update(Service(gatt, scanPos).uuid,
                                              Char(gatt, scanPos).uuid, value)
                  IN  /\ updated' =
                            (updated \/ r.updated
                             \/ Char(gatt, scanPos).uuid \notin seen_characteristics)
                      /\ last_known_values' = r.values
                      /\ lastRead' = Read(scanPos, value)
                      /\ compared' = Comparison(scanPos, Char(gatt, scanPos).uuid,
                                                value, r)
             /\ pc' = [pc EXCEPT !["scan"] = "ps_descs"]
             /\ UNCHANGED << scanPos, logged >>
        ELSE /\ updated' = (updated
                            \/ Char(gatt, scanPos).uuid \notin seen_characteristics)
             /\ UNCHANGED << last_known_values, lastRead, compared >>
             /\ pc' = [pc EXCEPT !["scan"] = AfterChar(gatt, scanPos)[1]]
             /\ scanPos' = AfterChar(gatt, scanPos)[2]
             /\ logged' = [logged EXCEPT !["scan"] = "read_error"]
    /\ UNCHANGED << charWriteInProgress, shared, presets, name, ret, nWrites,
                    nConnects, written, seen_services, status >>

\* Line 184: descriptors = char.getDescriptors().
scan_getDescriptors(gatt) ==
    /\ pc["scan"] = "ps_descs"
    /\ nReads' = BumpReads("scan")
    /\ \E ok \in Outcomes :
        IF ok /\ Len(Char(gatt, scanPos).descs) > 0
        THEN /\ pc' = [pc EXCEPT !["scan"] = "ps_dread"]
             /\ scanPos' = << scanPos[1], scanPos[2], 1 >>
             /\ UNCHANGED logged
        ELSE /\ pc' = [pc EXCEPT !["scan"] = AfterChar(gatt, scanPos)[1]]
             /\ scanPos' = AfterChar(gatt, scanPos)[2]
             /\ logged' = [logged EXCEPT
                             !["scan"] = IF ok THEN @ ELSE "read_error"]
    /\ UNCHANGED << charWriteInProgress, shared, presets, name, ret, nWrites,
                    nConnects, written, updated, seen_services,
                    seen_characteristics, last_known_values, lastRead,
                    compared, status >>

\* Lines 185-188: desc.read() and compare_and_update_descriptor.
scan_readDescriptor(gatt, values) ==
    /\ pc["scan"] = "ps_dread"
    /\ nReads' = BumpReads("scan")
    /\ \E ok \in Outcomes :
        IF ok
        THEN /\ \E value \in values :
                  LET r == compare_and_update_descriptor(
                               Service(gatt, scanPos).uuid,
                               Char(gatt, scanPos).uuid,
                               Char(gatt, scanPos).descs[scanPos[3]], value)
                  IN  /\ updated' = (updated \/ r.updated)
                      /\ last_known_values' = r.values
                      /\ lastRead' = Read(scanPos, value)
                      /\ compared' =
                            Comparison(scanPos,
                                       Char(gatt, scanPos).descs[scanPos[3]],
                                       value, r)
             /\ UNCHANGED logged
             /\ IF scanPos[3] < Len(Char(gatt, scanPos).descs)
                THEN /\ pc' = pc
                     /\ scanPos' = << scanPos[1], scanPos[2], scanPos[3] + 1 >>
                ELSE /\ pc' = [pc EXCEPT !["scan"] = AfterChar(gatt, scanPos)[1]]
                     /\ scanPos' = AfterChar(gatt, scanPos)[2]
        ELSE /\ UNCHANGED << updated, last_known_values, lastRead, compared >>
             /\ pc' = [pc EXCEPT !["scan"] = AfterChar(gatt, scanPos)[1]]
             /\ scanPos' = AfterChar(gatt, scanPos)[2]
             /\ logged' = [logged EXCEPT !["scan"] = "read_error"]
    /\ UNCHANGED << charWriteInProgress, shared, presets, name, ret, nWrites,
                    nConnects, written, seen_services, seen_characteristics,
                    status >>

\* Lines 191-194 and 201-204: the end of the with block (release) and of the
\* call, whose locals are gone; then periodic_scan sleeps one second and calls
\* scan_characteristics again.
scan_release ==
    /\ pc["scan"] = "ps_release"
    /\ charWriteInProgress' = "free"
    /\ pc' = [pc EXCEPT !["scan"] = "ps_lock"]
    /\ updated' = FALSE
    /\ scanPos' = << 0, 0, 0 >>
    /\ compared' = NoComparison
    /\ Forget("scan")
    /\ UNCHANGED << shared, presets, seen_services, seen_characteristics,
                    last_known_values, lastRead, status >>

scan_characteristics(gatt, values) ==
    \/ scan_acquire
    \/ scan_getServices
    \/ scan_getCharacteristics(gatt)
    \/ scan_read(gatt, values)
    \/ scan_getDescriptors(gatt)
    \/ scan_readDescriptor(gatt, values)
    \/ scan_release

\* -------------------------------------------------------- specifications
Next ==
    \/ LinkDrop
    \/ \E t \in Threads : connectBed(t)
    \/ scan_characteristics_periodically
    \/ \E c \in Callers : send_command(c)
    \/ bluetoothPoller
    \/ scan_characteristics(GattServices, ReadValues)

Spec == Init /\ [][Next]_vars

\* The steps a thread takes on its own once it runs: everything but the
\* environment's LinkDrop, the front end's decision to call send_command and
\* the embedding program's decision to start bluetoothPoller.
Run(t) ==
    \/ connectBed(t)
    \/ (t = "init" /\ scan_characteristics_periodically)
    \/ (t = "scan" /\ scan_characteristics(GattServices, ReadValues))
    \/ (t = "poller" /\ (\/ bluetoothPoller_acquire
                        \/ bluetoothPoller_probe1
                        \/ bluetoothPoller_probe2
                        \/ bluetoothPoller_release))
    \/ (t \in Callers /\ (\/ send_command_return(t)
                         \/ send_command_acquire(t)
                         \/ charWrite(t)
                         \/ send_command_after(t)
                         \/ send_command_release(t)))

\* A thread waiting for the lock.
Acquire(t) ==
    \/ (t = "scan" /\ scan_acquire)
    \/ (t = "poller" /\ bluetoothPoller_acquire)
    \/ (t \in Callers /\ send_command_acquire(t))

\* Every started thread keeps running, and a thread that waits for the lock
\* gets it if the lock is free again and again: the holders sleep (1 s, 10 s)
\* or return between two acquisitions.
FairSpec ==
    /\ Spec
    /\ \A t \in Threads : WF_vars(Run(t))
    /\ \A t \in Threads : SF_vars(Acquire(t))

\* The same session with a front end that calls send_command from one
\* thread only.  Only the progress of the threads is assumed: a thread that
\* can take a step of its own eventually takes one.  Nothing is assumed about
\* who gets the lock, nor about the bed ever answering.
SoloNext ==
    \/ LinkDrop
    \/ \E t \in Threads : connectBed(t)
    \/ scan_characteristics_periodically
    \/ send_command("c1")
    \/ bluetoothPoller
    \/ scan_characteristics(GattServices, ReadValues)

SoloFairSpec ==
    /\ Init /\ [][SoloNext]_vars
    /\ \A t \in Threads : WF_vars(Run(t))

\* The scan alone, on a constructed and connected session, over a bed with
\* two characteristics that both carry the Client Characteristic
\* Configuration descriptor (uuid 2902), the first one also a User
\* Description (2901); a read may return either of two values.
WideGatt ==
    << [uuid |-> "ffe0",
        chars |-> << [uuid |-> "ffe1", descs |-> << "2901", "2902" >>],
                     [uuid |-> "ffe2", descs |-> << "2902" >>] >>] >>

WideValues == {"00", "01"}

\* The state in which the constructor returns after a first connectBed()
\* that succeeded.
ScanInit ==
    /\ charWriteInProgress = "free"
    /\ device = "peripheral"
    /\ linkUp = TRUE
    /\ current_preset = "Unknown"
    /\ previous_preset = "None"
    /\ pc = [t \in Threads |->
               IF t = "init" THEN "done"
               ELSE IF t = "scan" THEN "ps_lock"
               ELSE IF t \in Callers THEN "idle" ELSE "off"]
    /\ name = [c \in Callers |-> "none"]
    /\ logged = [t \in Threads |-> "none"]
    /\ ret = [c \in Callers |-> "nocall"]
    /\ nWrites = [t \in Threads |-> 0]
    /\ nReads = [t \in Threads |-> 0]
    /\ nConnects = [t \in Threads |-> 0]
    /\ written = [t \in Threads |-> {}]
    /\ connDur = 0
    /\ connOpened = FALSE
    /\ connFresh = FALSE
    /\ scanPos = << 0, 0, 0 >>
    /\ updated = FALSE
    /\ seen_services = {}
    /\ seen_characteristics = {}
    /\ last_known_values = << >>
    /\ lastRead = << >>
    /\ compared = NoComparison
    /\ rawStatus = NoPayload
    /\ bedState = Decode(NoPayload)

ScanNext == scan_characteristics(WideGatt, WideValues)

ScanSpec == ScanInit /\ [][ScanNext]_vars

\* Refresh: a status payload is read and decoded, and BedState is what the
\* decoding gives (all three fields from that one payload).
Refresh ==
    /\ \E p \in StatusPayloads :
        /\ rawStatus' = p
        /\ bedState' = Decode(p)
    /\ UNCHANGED << charWriteInProgress, shared, presets, pc, name, logged,
                    ret, counters, scanned >>

\* The decoder alone, applied to every payload of StatusPayloads.
DecodeSpec == Init /\ [][Refresh]_vars

\* ----------------------------------------------------------------- claims
Known(c) == name[c] \in DOMAIN commands
Unknown(c) == name[c] # "none" /\ name[c] \notin DOMAIN commands

\* C1: every write a send_command call with a known name issues, at any point
\* of the call, goes to the command characteristic (handle 0x001A) and
\* carries exactly the payload the table binds to that name.
C1_PayloadExact ==
    \A c \in Callers :
        Known(c) => written[c] \subseteq {<< CommandHandle, commands[name[c]] >>}

\* C1 witness: a call for "Flat Preset" has written, and what it wrote is the
\* table's payload for that name.
C1_Witness ==
    \E c \in Callers :
        /\ name[c] = "Flat Preset"
        /\ nWrites[c] = 1
        /\ written[c] = {<< CommandHandle, "e6fe160000000800fd" >>}

\* A step of a send_command call whose name is not in the table.
UnknownStep(c) ==
    \/ pc[c] = "idle" /\ pc'[c] = "sc_return"
    \/ pc[c] = "sc_return" /\ pc'[c] = "idle"

\* C2 (as claimed): a call with a name absent from the table writes nothing,
\* reads nothing, does not reconnect, and returns UnknownCommand to its caller.
C2_ReportsUnknownCommand ==
    \A c \in Callers :
        Unknown(c) =>
            /\ nWrites[c] = 0 /\ nReads[c] = 0 /\ nConnects[c] = 0
            /\ ret[c] = "UnknownCommand"

\* C2 (amended): a call with a name absent from the table never enters the
\* I/O section, writes nothing, reads nothing, does not reconnect, logs the
\* unknown command and returns None; none of its steps changes the recorded
\* current or previous preset.
C2_UnknownInert ==
    /\ [](\A c \in Callers :
            Unknown(c) =>
                /\ pc[c] = "sc_return"
                /\ charWriteInProgress # c
                /\ nWrites[c] = 0 /\ nReads[c] = 0 /\ nConnects[c] = 0
                /\ written[c] = {}
                /\ logged[c] = "unknown"
                /\ ret[c] = "None")
    /\ [][\A c \in Callers : UnknownStep(c) => UNCHANGED presets]_vars

\* C2 witness: a call with the unknown name "preset_flat" is returning while
\* a preset is on record.
C2_Witness ==
    \E c \in Callers :
        /\ pc[c] = "sc_return"
        /\ name[c] = "preset_flat"
        /\ current_preset = "Flat Preset"

\* The positions at which a thread's next step is a device operation or lies
\* between two of them (a reconnect in progress, a decision between writes).
IOPositions ==
    {"cb_open", "cb_read1", "cb_read2", "cb_sleep", "sc_write", "sc_after",
     "bp_probe1", "bp_probe2", "ps_services", "ps_chars", "ps_read",
     "ps_descs", "ps_dread"}
InIO(t) == pc[t] \in IOPositions

\* C3: once the constructor has started the background thread, at most one
\* thread is at a device operation, and it is the holder of the lock; so the
\* device operations of different participants never interleave.
C3_ExclusiveIO ==
    constructed =>
        /\ \A t1, t2 \in Threads : InIO(t1) /\ InIO(t2) => t1 = t2
        /\ \A t \in Threads : InIO(t) => charWriteInProgress = t

\* C3 witness: a caller is writing while the other caller, the scan thread and
\* the poller all wait for the lock.
C3_Witness ==
    /\ constructed
    /\ pc["c1"] = "sc_write"
    /\ pc["c2"] = "sc_lock"
    /\ pc["scan"] = "ps_lock"
    /\ pc["poller"] = "bp_wait"

\* A send_command call has done all its device operations and is about to
\* leave the with block and return, after a first write that raised.
EndsAfterReconnect(c) == pc[c] = "sc_release" /\ nConnects[c] = 1

\* C4 (as claimed): when the first write failed and the reconnect took less
\* than 5 seconds, the call has made exactly one more write, of the same
\* payload.
C4_RetriesOnce ==
    \A c \in Callers :
        EndsAfterReconnect(c) /\ connDur < RetryWindow =>
            /\ nWrites[c] = 2
            /\ written[c] = {<< CommandHandle, commands[name[c]] >>}

\* C5 (as claimed): when the first write failed and the reconnect took 5
\* seconds or more, the call makes no second write and returns CommandFailed.
C5_ReportsCommandFailed ==
    \A c \in Callers :
        EndsAfterReconnect(c) /\ connDur >= RetryWindow =>
            /\ nWrites[c] = 1
            /\ ret[c] = "CommandFailed"

\* C5 (amended): when the first write failed and the reconnect took 5 seconds
\* or more, the call makes no second write, logs that the command is dropped
\* because the reconnect was slow, and returns None.
C5_SlowReconnectDrops ==
    \A c \in Callers :
        EndsAfterReconnect(c) /\ connDur >= RetryWindow =>
            /\ nWrites[c] = 1
            /\ written[c] = {<< CommandHandle, commands[name[c]] >>}
            /\ logged[c] = "drop_slow"
            /\ ret[c] = "None"

\* C5 witness: a call ends after a reconnect that took the whole window.
C5_Witness ==
    \E c \in Callers :
        /\ EndsAfterReconnect(c)
        /\ connDur = RetryWindow
        /\ logged[c] = "drop_slow"

\* A send_command call has done all its device operations and is about to
\* leave the with block and return, its first write having succeeded.
EndsAfterWrite(c) == pc[c] = "sc_release" /\ nConnects[c] = 0

\* C6 (as claimed): when the write succeeds, the call has made one write of
\* the command's payload and one status read before it leaves the I/O
\* section, and returns a BedState snapshot.
C6_WritesThenRefreshes ==
    \A c \in Callers :
        EndsAfterWrite(c) =>
            /\ nWrites[c] = 1
            /\ written[c] = {<< CommandHandle, commands[name[c]] >>}
            /\ nReads[c] = 1
            /\ ret[c] = "BedState"

\* C6 (amended): when the write succeeds, the call has made one write of the
\* command's payload and no read, still holds the lock, has recorded the name
\* as current preset, and returns None.
C6_WritesOnce ==
    \A c \in Callers :
        EndsAfterWrite(c) =>
            /\ nWrites[c] = 1
            /\ written[c] = {<< CommandHandle, commands[name[c]] >>}
            /\ nReads[c] = 0
            /\ charWriteInProgress = c
            /\ current_preset = name[c]
            /\ logged[c] = "sent"
            /\ ret[c] = "None"

\* C6 witness: the call for "Flat Preset" ends after its successful write.
C6_Witness ==
    \E c \in Callers :
        /\ EndsAfterWrite(c)
        /\ name[c] = "Flat Preset"
        /\ written[c] = {<< CommandHandle, "e6fe160000000800fd" >>}
        /\ linkUp

\* C7: at the end of a poller tick: if the first keepalive write succeeded
\* there was one write and no connectBed(); if only the first failed, two
\* writes and no connectBed(); if both failed, two writes and then one
\* connectBed(), which is entered only after the second write.  Every write
\* of the tick is the keepalive payload.
C7_ProbesThenReconnect ==
    /\ pc["poller"] = "bp_release" =>
        /\ logged["poller"] \in {"success_1", "success_2", "failed_2"}
        /\ logged["poller"] = "success_1" =>
              nWrites["poller"] = 1 /\ nConnects["poller"] = 0
        /\ logged["poller"] = "success_2" =>
              nWrites["poller"] = 2 /\ nConnects["poller"] = 0
        /\ logged["poller"] = "failed_2" =>
              nWrites["poller"] = 2 /\ nConnects["poller"] = 1
    /\ pc["poller"] \in {"cb_open", "cb_read1", "cb_read2", "cb_sleep"} =>
        /\ logged["poller"] = "failed_2"
        /\ nWrites["poller"] = 2 /\ nConnects["poller"] = 1
    /\ written["poller"] \subseteq {<< CommandHandle, "e6fe16000000000005" >>}

\* C7 witness: a tick ends after two failed keepalive writes and a reconnect.
C7_Witness ==
    /\ pc["poller"] = "bp_release"
    /\ logged["poller"] = "failed_2"
    /\ nWrites["poller"] = 2
    /\ nConnects["poller"] = 1

\* C8 (as claimed): once the session is constructed, a lost link leads, with
\* no call from outside, to an invocation of connectBed() by the background
\* task.
C8_LostLinkReconnects ==
    (constructed /\ ~linkUp) ~> (\E t \in Threads : pc[t] = "cb_open")

\* C9 (as claimed): connectBed() never raises to its caller.
C9_ConnectNeverRaises == \A t \in Threads : pc[t] # "raised"

\* C10 (as claimed): in a reconnect, the handshake is attempted only in an
\* iteration whose Peripheral() call succeeded, and when connectBed() returns
\* self.device is an object that call created.
C10_ReconnectReplacesHandle ==
    \A t \in Threads \ {"init"} :
        /\ pc[t] \in {"cb_read1", "cb_read2"} => connOpened
        /\ pc[t] = AfterConnect(t) /\ nConnects[t] = 1 => connFresh

\* The keepalive no-op as it goes over the link.
KeepaliveWrite == << CommandHandle, commands["Keepalive NOOP"] >>

\* C11 (as claimed): no send_command call, whatever name its caller passes,
\* writes the keepalive no-op payload; only the poller's ticks write it.
C11_KeepaliveInternalOnly ==
    \A t \in Threads \ {"poller"} : KeepaliveWrite \notin written[t]

\* C12: every comparison of the scan reports a change exactly when the
\* dictionary held nothing under the key or held other bytes than those just
\* read, and leaves the bytes just read stored under the key; so a value
\* read twice in a row under a key is not reported the second time.
C12_ChangeDetection ==
    compared # NoComparison =>
        /\ compared.updated <=>
              (compared.stored = "absent" \/ compared.stored # compared.value)
        /\ compared.key \in DOMAIN last_known_values
        /\ last_known_values[compared.key] = compared.value

\* C12 witness: the characteristic ffe1 returned 01 when 01 was stored for
\* it, and no change was reported.
C12_Witness ==
    /\ compared.key = "ffe1"
    /\ compared.value = "01"
    /\ compared.stored = "01"
    /\ ~compared.updated

\* The value of a 1-byte sub-field given as two hexadecimal digits.
ByteValue(b) == 16 * HexValue(b[1]) + HexValue(b[2])

\* C13: BedState is the decoding of the one payload last read: each angle's
\* raw value has the second sub-field as its high byte and the first as its
\* low byte, the head angle is raw * 60 / 16000 and the foot angle
\* raw * 45 / 12000 degrees with no clamping, and the light is on exactly for
\* the sentinel; sub-fields "40" and "3E" give raw 15936 and 59.76 degrees.
C13_DecodesStatus ==
    LET head == 256 * ByteValue(rawStatus.head2) + ByteValue(rawStatus.head1)
        foot == 256 * ByteValue(rawStatus.foot2) + ByteValue(rawStatus.foot1)
    IN  /\ bedState.head_angle = [num |-> head * 60, den |-> 16000]
        /\ bedState.foot_angle = [num |-> foot * 45, den |-> 12000]
        /\ bedState.light_on = (rawStatus.light = "4")
        /\ rawStatus.head1 = << "4", "0" >> /\ rawStatus.head2 = << "3", "E" >>
              => /\ head = 15936
                 /\ bedState.head_angle.num * 100
                      = 5976 * bedState.head_angle.den

\* C13 witness: a payload with head sub-fields "40" and "3E" and a foot
\* angle beyond its nominal maximum has been decoded, with the light on.
C13_Witness ==
    /\ rawStatus.head1 = << "4", "0" >>
    /\ rawStatus.head2 = << "3", "E" >>
    /\ bedState.head_angle.num * 100 = 5976 * bedState.head_angle.den
    /\ bedState.foot_angle.num > 45 * bedState.foot_angle.den
    /\ bedState.light_on

\* A thread is inside connectBed().
Reconnecting(t) == pc[t] \in {"cb_open", "cb_read1", "cb_read2", "cb_sleep"}

\* The positions at which a thread waits for the lock.
LockWait == {"sc_lock", "bp_wait", "ps_lock"}

\* C14: while a send_command call or a poller tick is inside connectBed(),
\* from the failed write until connectBed() returns, that thread holds the
\* lock, no other thread is at a device operation, and no thread waiting for
\* the lock gets past its wait.
C14_HeldAcrossReconnect ==
    /\ [](\A t \in Callers \cup {"poller"} :
            Reconnecting(t) =>
                /\ charWriteInProgress = t
                /\ \A u \in Threads \ {t} : ~InIO(u))
    /\ [][\A t \in Callers \cup {"poller"} :
            Reconnecting(t) =>
                \A u \in Threads \ {t} :
                    pc[u] \in LockWait => pc'[u] = pc[u]]_vars

\* C14 witness: a caller's reconnect is in its back-off sleep after a failed
\* handshake while the other caller, the poller and the scan wait for the
\* lock.
C14_Witness ==
    /\ pc["c1"] = "cb_sleep"
    /\ pc["c2"] = "sc_lock"
    /\ pc["poller"] = "bp_wait"
    /\ pc["scan"] = "ps_lock"

\* The call of thread t has logged that its command is dropped.
Dropped(t) == logged[t] \in {"drop_retry", "drop_slow"}

\* C15: a send_command call makes at most two writes and calls connectBed()
\* at most once, and a second write comes only after a first write that
\* raised and a connectBed() that returned; every write on the link is the
\* poller's keepalive or the command of the call that makes it, made before
\* that call has dropped its command: a dropped command is not written again.
C15_BoundedAttempts ==
    /\ [](\A c \in Callers :
            /\ nWrites[c] <= 2
            /\ nConnects[c] <= 1
            /\ nWrites[c] = 2 => nConnects[c] = 1 /\ pc[c] = "sc_release")
    /\ [][\A t \in Threads :
            nWrites'[t] > nWrites[t] =>
                /\ ~Dropped(t)
                /\ t \in Callers => written'[t] = {WriteOf(commands[name[t]])}
                /\ t \notin Callers => t = "poller" /\ written'[t] = {KeepaliveWrite}]_vars

\* C15 witness: a call whose write raised has reconnected, has dropped its
\* command for good and is about to return, with one write and one
\* connectBed() call behind it.
C15_Witness ==
    \E c \in Callers :
        /\ pc[c] = "sc_release"
        /\ Dropped(c)
        /\ nWrites[c] = 1
        /\ nConnects[c] = 1

\* The step in which the write of a send_command call returns.
SuccessfulWrite(c) == pc[c] = "sc_write" /\ pc'[c] = "sc_release"

\* C16: a step in which a command write succeeds leaves the current preset
\* equal to the name written and the previous preset equal to the former
\* current preset; every other step (a write that raises, the lookup and
\* return of an unknown name, a drop, a keepalive probe, a reconnect, a step
\* of the scan) leaves both unchanged.
C16_PresetsFollowWrites ==
    [][/\ \A c \in Callers :
            SuccessfulWrite(c) =>
                /\ current_preset' = name[c]
                /\ previous_preset' = current_preset
       /\ (\A c \in Callers : ~SuccessfulWrite(c)) => UNCHANGED presets]_vars

\* C16 witness: "Flat Preset" has just been written with success while
\* "Keepalive NOOP" was the current preset.
C16_Witness ==
    \E c \in Callers :
        /\ pc[c] = "sc_release"
        /\ logged[c] = "sent"
        /\ name[c] = "Flat Preset"
        /\ current_preset = "Flat Preset"
        /\ previous_preset = "Keepalive NOOP"

\* The threads that run a background loop.
Loops == {"scan", "poller"}

\* A tick of a background loop is under way; it is over, with the lock
\* released, once the thread is back at the acquire of its next tick.
InTick(t) == charWriteInProgress = t
TickOver(t) == pc[t] \in LockWait /\ charWriteInProgress # t

\* C17 (as claimed): a background loop never raises, and whatever fails in a
\* tick, the tick ends with the lock released and the loop is at its next
\* tick.
C17_TicksAlwaysEnd ==
    /\ [](\A t \in Loops : pc[t] # "raised")
    /\ \A t \in Loops : InTick(t) ~> TickOver(t)

\* C17 (amended): a background loop never raises; a tick of the periodic
\* scan always ends with the lock released, and so does a tick of the poller
\* provided the poller does not stay inside connectBed() for ever.
C17_TicksEndUnlessConnecting ==
    /\ [](\A t \in Loops : pc[t] # "raised")
    /\ InTick("scan") ~> TickOver("scan")
    /\ ([]<>(~Reconnecting("poller")))
          => (InTick("poller") ~> TickOver("poller"))

\* C17 witness: a tick of the scan in which a read raised on a lost link is
\* about to release the lock.
C17_Witness ==
    /\ pc["scan"] = "ps_release"
    /\ logged["scan"] = "read_error"
    /\ charWriteInProgress = "scan"
    /\ ~linkUp

\* The positions inside a with block of the lock.
InWith(t) == InIO(t) \/ pc[t] \in {"sc_release", "bp_release", "ps_release"}

\* Every connectBed() call returns.
ConnectsReturn == \A t \in Threads : []<>(~Reconnecting(t))

\* C18: a thread outside its with block never holds the lock, whichever way
\* its call or tick ended; and if every connectBed() call returns, a
\* send_command call that holds the lock ends with the lock released, and
\* the lock is free again and again, so no thread waits on a lock that is
\* never released.
C18_SectionAlwaysReleased ==
    /\ [](\A t \in Threads : ~InWith(t) => charWriteInProgress # t)
    /\ ConnectsReturn =>
          /\ \A c \in Callers :
                (charWriteInProgress = c)
                    ~> (pc[c] = "idle" /\ charWriteInProgress # c)
          /\ []<>(charWriteInProgress = "free")

\* C18 witness: a call whose write raised and whose reconnect was fast is
\* about to leave the with block, lock still held, with the poller and the
\* scan waiting for it.
C18_Witness ==
    /\ pc["c1"] = "sc_release"
    /\ logged["c1"] = "drop_retry"
    /\ charWriteInProgress = "c1"
    /\ pc["poller"] = "bp_wait"
    /\ pc["scan"] = "ps_lock"

\* C19: a send_command call with a name absent from the table is never at
\* the acquire of the lock and never holds it, and it returns whatever the
\* other threads do, also while one of them holds the lock inside a
\* connectBed() that never returns.
C19_UnknownNeverWaits ==
    /\ [](\A c \in Callers :
            Unknown(c) => pc[c] \notin LockWait /\ charWriteInProgress # c)
    /\ \A c \in Callers : Unknown(c) ~> (pc[c] = "idle")

\* C19 witness: a call with an unknown name is returning while the poller
\* holds the lock inside connectBed() with the link down.
C19_Witness ==
    /\ Unknown("c1")
    /\ pc["c1"] = "sc_return"
    /\ charWriteInProgress = "poller"
    /\ Reconnecting("poller")
    /\ ~linkUp

\* The dictionary key the scan uses for the data point at position p of
\* WideGatt.
KeyOf(p) ==
    IF p[3] = 0 THEN Char(WideGatt, p).uuid ELSE Char(WideGatt, p).descs[p[3]]

\* C20 (as claimed): a comparison reports a change for a data point only if
\* that data point returned other bytes when it was last read (or was never
\* read before), and the bytes stored for a data point are the bytes it
\* returned when last read, whatever other data points were read since; so a
\* scan of a bed whose values have not changed reports nothing.
C20_TrackedPerDataPoint ==
    /\ compared.updated => compared.prev # compared.value
    /\ \A p \in DOMAIN lastRead : last_known_values[KeyOf(p)] = lastRead[p]

=============================================================================
